---- MODULE Spec2Model ----
(***************************************************************************)
(* Model of the Python-bridge supervisor of src/tauri/src-tauri/src/main.rs *)
(* (Aya).  One Mutex<PythonBridgeState> guards {process, is_running}; the  *)
(* commands start_python_bridge, stop_python_bridge and                    *)
(* is_python_bridge_running run as concurrent tasks, the setup hook spawns *)
(* one detached auto-start task, and CloseRequested hides the window.      *)
(* Every statement that touches the guarded state is one step of the task  *)
(* that executes it, so that the interleavings the mutex excludes are      *)
(* excluded by the lock variable and by nothing else.                      *)
(***************************************************************************)
EXTENDS Integers, Sequences, FiniteSets, TLC

\* ---------------------------------------------------------------- bounds
\* Number of concurrently callable UI command tasks.
NumUI == 2
\* Total number of UI command invocations in one run.
MaxCalls == 2

\* ------------------------------------------------------------- vocabulary
\* Tasks are numbered: 0 is the detached auto-start task, 1..NumUI run UI commands.
NoTask == -1
AutoTask == 0
UITasks == 1..NumUI
Tasks == {AutoTask} \cup UITasks

\* Option<Child>::None; a Some(child) is the positive index of the child in os.
None == 0

Platforms == {"windows", "macos", "linux", "other"}
NoDir == <<>>
AppDataDir == <<"app_data_dir">>

VARIABLES
    process,      \* PythonBridgeState.process: None or the stored child
    is_running,   \* PythonBridgeState.is_running
    lock,         \* holder of the Mutex, or NoTask
    pc,           \* position of every task
    child,        \* the task-local `process` binding (spawned or taken child), or None
    ret,          \* what the call that returned last gave its caller
    entry,        \* guarded state and number of emits seen when the task took the lock
    os,           \* OS process table: os[p] is "alive" or "exited" for every child spawned
    events,       \* values passed to window.emit("python-bridge-status", _), in order
    delivered,    \* whether the last emit reached the frontend (its ignored Result)
    lastOk,       \* the last operation that returned Ok: "none", "start" or "stop"
    window,       \* "visible" or "hidden"
    closeLog,     \* what the last close request found: "none", "idle" or "running"
    setup,        \* position of the setup hook: "init", "spawned" or "done"
    autoStarts,   \* number of start calls issued by the application itself
    autoLog,      \* what the auto-start task printed: "none", "success" or "failed"
    calls,        \* number of UI command invocations so far
    debug,        \* cfg!(debug_assertions)
    platform,     \* target_os
    app_data_dir, \* path_resolver().app_data_dir(): NoDir for None
    resolved      \* what get_python_command returned to the last start() that called it

vars == <<process, is_running, lock, pc, child, ret, entry, os, events, delivered,
          lastOk, window, closeLog, setup, autoStarts, autoLog, calls,
          debug, platform, app_data_dir, resolved>>

guarded == <<process, is_running>>
inputs == <<debug, platform, app_data_dir>>
config == <<inputs, resolved>>
sink == <<events, delivered>>
app == <<window, closeLog, setup, autoStarts, calls>>
callframe == <<ret, entry, lock, lastOk, autoLog>>
NoEntry == <<None, FALSE, 0>>

\* ------------------------------------------------------- command resolver
\* No start() has resolved a command yet.
NotResolved == [ok |-> FALSE, cmd |-> <<>>, args |-> <<>>, err |-> "not called"]

\* Variant of get_python_command that uses the lower-case "resources" directory
\* on every platform.
get_python_command_lowercase(dbg, plat, dir) ==
    IF dbg
    THEN [ok |-> TRUE, cmd |-> IF plat = "windows" THEN <<"python">> ELSE <<"python3">>,
          args |-> <<"-m", "aya.tauri_bridge">>, err |-> ""]
    ELSE IF dir = NoDir
         THEN [ok |-> FALSE, cmd |-> <<>>, args |-> <<>>,
               err |-> "Failed to get app directory"]
         ELSE IF plat \in {"windows", "macos", "linux"}
              THEN [ok |-> TRUE,
                    cmd |-> dir \o <<"resources",
                                     IF plat = "windows" THEN "aya_bridge.exe"
                                                         ELSE "aya_bridge">>,
                    args |-> <<>>, err |-> ""]
              ELSE [ok |-> FALSE, cmd |-> <<>>, args |-> <<>>,
                    err |-> "Unsupported platform"]

\* get_python_command: Ok((cmd, args)) or Err(msg).  A path is the sequence of
\* its components; args is <<>> for None.
get_python_command(dbg, plat, dir) ==
    IF dbg
    THEN IF plat = "windows"
         THEN [ok |-> TRUE, cmd |-> <<"python">>, args |-> <<"-m", "aya.tauri_bridge">>,
               err |-> ""]
         ELSE [ok |-> TRUE, cmd |-> <<"python3">>, args |-> <<"-m", "aya.tauri_bridge">>,
               err |-> ""]
    ELSE IF dir = NoDir
         THEN [ok |-> FALSE, cmd |-> <<>>, args |-> <<>>,
               err |-> "Failed to get app directory"]
         ELSE CASE plat = "windows" ->
                     [ok |-> TRUE, cmd |-> dir \o <<"resources", "aya_bridge.exe">>,
                      args |-> <<>>, err |-> ""]
                [] plat = "macos" ->
                     [ok |-> TRUE, cmd |-> dir \o <<"Resources", "aya_bridge">>,
                      args |-> <<>>, err |-> ""]
                [] plat = "linux" ->
                     [ok |-> TRUE, cmd |-> dir \o <<"resources", "aya_bridge">>,
                      args |-> <<>>, err |-> ""]
                [] OTHER ->
                     [ok |-> FALSE, cmd |-> <<>>, args |-> <<>>,
                      err |-> "Unsupported platform"]

\* ------------------------------------------------------------------ state
\* PythonBridgeState::new() and the state of the application before setup.
Init ==
    /\ process = None
    /\ is_running = FALSE
    /\ lock = NoTask
    /\ pc = [t \in Tasks |-> IF t = AutoTask THEN "unspawned" ELSE "idle"]
    /\ child = [t \in Tasks |-> None]
    /\ ret = "none"
    /\ entry = [t \in Tasks |-> NoEntry]
    /\ os = <<>>
    /\ events = <<>>
    /\ delivered = TRUE
    /\ lastOk = "none"
    /\ window = "visible"
    /\ closeLog = "none"
    /\ setup = "init"
    /\ autoStarts = 0
    /\ autoLog = "none"
    /\ calls = 0
    /\ debug \in BOOLEAN
    /\ platform \in Platforms
    /\ app_data_dir \in {NoDir, AppDataDir}
    /\ resolved = NotResolved

\* ------------------------------------------------------------ task helpers
\* Variant of Home in which the auto-start task calls start() again.
Home_retry(t) == IF t = AutoTask THEN "s_lock" ELSE "idle"

\* Position a task goes to when its call returns: a UI task waits for the next
\* command, the auto-start task prints the outcome and ends.
Home(t) == IF t = AutoTask THEN "done" ELSE "idle"

\* Variant of LockFree that grants the lock to every caller.
LockFree_always(t) == TRUE

\* state.lock(): granted only when nobody holds the mutex.
LockFree(t) == lock = NoTask

\* Taking the mutex; the guard lives until the function returns.
Acquire(t, next) ==
    /\ LockFree(t)
    /\ lock' = t
    /\ pc' = [pc EXCEPT ![t] = next]
    /\ entry' = [entry EXCEPT ![t] = <<process, is_running, Len(events)>>]

\* Variant of Return in which an error return leaves the mutex locked.
Return_holds(t, r, okOp) ==
    /\ ret' = r
    /\ pc' = [pc EXCEPT ![t] = Home(t)]
    /\ child' = [child EXCEPT ![t] = None]
    /\ entry' = [entry EXCEPT ![t] = NoEntry]
    /\ lock' = IF lock = t /\ (okOp # "none" \/ r \in {"true", "false"}) THEN NoTask ELSE lock
    /\ lastOk' = IF okOp # "none" THEN okOp ELSE lastOk
    /\ autoLog' = IF t # AutoTask THEN autoLog
                  ELSE IF okOp # "none" THEN "success" ELSE "failed"

\* Returning r from the function: the locals and the guard are dropped with the
\* return.  okOp is "start" or "stop" when r is an Ok of that operation, else
\* "none".  The auto-start task prints what it got (Ok or Err) and ends.
Return(t, r, okOp) ==
    /\ ret' = r
    /\ pc' = [pc EXCEPT ![t] = Home(t)]
    /\ child' = [child EXCEPT ![t] = None]
    /\ entry' = [entry EXCEPT ![t] = NoEntry]
    /\ lock' = IF lock = t THEN NoTask ELSE lock
    /\ lastOk' = IF okOp # "none" THEN okOp ELSE lastOk
    /\ autoLog' = IF t # AutoTask THEN autoLog
                  ELSE IF okOp # "none" THEN "success" ELSE "failed"

\* window.emit("python-bridge-status", v); the Result is discarded.
Emit(v) ==
    /\ events' = Append(events, v)
    /\ delivered' \in BOOLEAN

\* ------------------------------------------------- start_python_bridge_direct
\* let mut state_guard = state.lock().unwrap();
StartLock(t) ==
    /\ pc[t] = "s_lock"
    /\ Acquire(t, "s_check")
    /\ UNCHANGED <<guarded, child, ret, lastOk, autoLog, os, sink, app, config>>

\* Variant of StartCheck without the is_running guard.
StartCheck_unguarded(t) ==
    /\ pc[t] = "s_check"
    /\ pc' = [pc EXCEPT ![t] = "s_resolve"]
    /\ UNCHANGED <<child, callframe, guarded, os, sink, app, config>>

\* if state_guard.is_running { return Err("Python bridge is already running") }
StartCheck(t) ==
    /\ pc[t] = "s_check"
    /\ IF is_running
       THEN Return(t, "AlreadyRunning", "none")
       ELSE /\ pc' = [pc EXCEPT ![t] = "s_resolve"]
            /\ UNCHANGED <<child, callframe>>
    /\ UNCHANGED <<guarded, os, sink, app, config>>

\* let (cmd, args) = get_python_command(&app_handle).map_err(..)?;
StartResolve(t) ==
    /\ pc[t] = "s_resolve"
    /\ resolved' = get_python_command(debug, platform, app_data_dir)
    /\ IF resolved'.ok
       THEN /\ pc' = [pc EXCEPT ![t] = "s_spawn"]
            /\ UNCHANGED <<child, callframe>>
       ELSE Return(t, "ResolutionFailed", "none")
    /\ UNCHANGED <<guarded, os, sink, app, inputs>>

\* Variant of StartSpawn that unlocks the mutex for the grace interval.
StartSpawn_releases(t) ==
    /\ pc[t] = "s_spawn"
    /\ \E spawned \in BOOLEAN :
          IF spawned
          THEN /\ os' = Append(os, "alive")
               /\ child' = [child EXCEPT ![t] = Len(os) + 1]
               /\ pc' = [pc EXCEPT ![t] = "s_probe"]
               /\ lock' = NoTask
               /\ UNCHANGED <<ret, entry, lastOk, autoLog>>
          ELSE /\ Return(t, "SpawnFailed", "none")
               /\ UNCHANGED os
    /\ UNCHANGED <<guarded, sink, app, config>>

\* match command.spawn(): Ok(process) creates a new OS process, Err(e) returns.
StartSpawn(t) ==
    /\ pc[t] = "s_spawn"
    /\ \E spawned \in BOOLEAN :
          IF spawned
          THEN /\ os' = Append(os, "alive")
               /\ child' = [child EXCEPT ![t] = Len(os) + 1]
               /\ pc' = [pc EXCEPT ![t] = "s_probe"]
               /\ UNCHANGED callframe
          ELSE /\ Return(t, "SpawnFailed", "none")
               /\ UNCHANGED os
    /\ UNCHANGED <<guarded, sink, app, config>>

\* Outcomes of Child::try_wait on child p: Ok(Some(status)) needs an exited
\* process, Ok(None) a live one, and the call itself may fail.
try_wait(p) == (IF os[p] = "exited" THEN {"exited"} ELSE {"running"}) \cup {"error"}

\* thread::sleep(500 ms); match process.try_wait() { .. }: the arm taken.
ProbeArm(outcome) ==
    CASE outcome = "exited" -> "s_exited"
      [] outcome = "running" -> "s_running"
      [] outcome = "error" -> "s_error"

\* Variant of StartProbe that blocks in Child::wait until the worker has exited.
StartProbe_wait(t) ==
    /\ pc[t] = "s_probe"
    /\ os[child[t]] = "exited"
    /\ pc' = [pc EXCEPT ![t] = "s_exited"]
    /\ UNCHANGED <<guarded, child, callframe, os, sink, app, config>>

StartProbe(t) ==
    /\ pc[t] = "s_probe"
    /\ \E outcome \in try_wait(child[t]) : pc' = [pc EXCEPT ![t] = ProbeArm(outcome)]
    /\ UNCHANGED <<guarded, child, callframe, os, sink, app, config>>

\* Variant of StartExited without the early return.
StartExited_fallthrough(t) ==
    /\ pc[t] = "s_exited"
    /\ pc' = [pc EXCEPT ![t] = "s_store"]
    /\ UNCHANGED <<guarded, child, callframe, os, sink, app, config>>

\* Ok(Some(status)) => return Err("Python bridge exited immediately ..")
StartExited(t) ==
    /\ pc[t] = "s_exited"
    /\ Return(t, "ExitedImmediately", "none")
    /\ UNCHANGED <<guarded, os, sink, app, config>>

\* Ok(None) => println!("PYTHON PROCESS STILL RUNNING")
StartRunning(t) ==
    /\ pc[t] = "s_running"
    /\ pc' = [pc EXCEPT ![t] = "s_store"]
    /\ UNCHANGED <<guarded, child, callframe, os, sink, app, config>>

\* Err(e) => println!("ERROR CHECKING PYTHON PROCESS STATUS")
StartProbeError(t) ==
    /\ pc[t] = "s_error"
    /\ pc' = [pc EXCEPT ![t] = "s_store"]
    /\ UNCHANGED <<guarded, child, callframe, os, sink, app, config>>

\* Variant of StartStore that drops the child instead of storing it.
StartStore_forget(t) ==
    /\ pc[t] = "s_store"
    /\ pc' = [pc EXCEPT ![t] = "s_flag"]
    /\ UNCHANGED <<guarded, child, callframe, os, sink, app, config>>

\* state_guard.process = Some(process);
StartStore(t) ==
    /\ pc[t] = "s_store"
    /\ process' = child[t]
    /\ pc' = [pc EXCEPT ![t] = "s_flag"]
    /\ UNCHANGED <<is_running, child, callframe, os, sink, app, config>>

\* state_guard.is_running = true;
StartFlag(t) ==
    /\ pc[t] = "s_flag"
    /\ is_running' = TRUE
    /\ pc' = [pc EXCEPT ![t] = "s_emit"]
    /\ UNCHANGED <<process, child, callframe, os, sink, app, config>>

\* Variant of StartEmit that propagates a failed emit to the caller.
StartEmit_propagates(t) ==
    /\ pc[t] = "s_emit"
    /\ events' = Append(events, TRUE)
    /\ \E sent \in BOOLEAN :
          /\ delivered' = sent
          /\ IF sent
             THEN /\ pc' = [pc EXCEPT ![t] = "s_ret"]
                  /\ UNCHANGED <<child, callframe>>
             ELSE Return(t, "EmitFailed", "none")
    /\ UNCHANGED <<guarded, os, app, config>>

\* let _ = window.emit("python-bridge-status", true);
StartEmit(t) ==
    /\ pc[t] = "s_emit"
    /\ Emit(TRUE)
    /\ pc' = [pc EXCEPT ![t] = "s_ret"]
    /\ UNCHANGED <<guarded, child, callframe, os, app, config>>

\* Ok("Python bridge started successfully")
StartReturn(t) ==
    /\ pc[t] = "s_ret"
    /\ Return(t, "Started", "start")
    /\ UNCHANGED <<guarded, os, sink, app, config>>

\* --------------------------------------------------------- stop_python_bridge
\* let mut state = state.lock().unwrap();
StopLock(t) ==
    /\ pc[t] = "p_lock"
    /\ Acquire(t, "p_check")
    /\ UNCHANGED <<guarded, child, ret, lastOk, autoLog, os, sink, app, config>>

\* Variant of StopCheck without the is_running guard.
StopCheck_unguarded(t) ==
    /\ pc[t] = "p_check"
    /\ pc' = [pc EXCEPT ![t] = "p_take"]
    /\ UNCHANGED <<child, callframe, guarded, os, sink, app, config>>

\* Variant of StopCheck that also notifies the sink when nothing was running.
StopCheck_notifies(t) ==
    /\ pc[t] = "p_check"
    /\ IF ~is_running
       THEN /\ Return(t, "NotRunning", "none")
            /\ Emit(FALSE)
       ELSE /\ pc' = [pc EXCEPT ![t] = "p_take"]
            /\ UNCHANGED <<child, callframe, sink>>
    /\ UNCHANGED <<guarded, os, app, config>>

\* if !state.is_running { return Err("Python bridge is not running") }
StopCheck(t) ==
    /\ pc[t] = "p_check"
    /\ IF ~is_running
       THEN Return(t, "NotRunning", "none")
       ELSE /\ pc' = [pc EXCEPT ![t] = "p_take"]
            /\ UNCHANGED <<child, callframe>>
    /\ UNCHANGED <<guarded, os, sink, app, config>>

\* Variant of StopTake that drops the taken child without killing it.
StopTake_nokill(t) ==
    /\ pc[t] = "p_take"
    /\ IF process # None
       THEN /\ child' = [child EXCEPT ![t] = process]
            /\ process' = None
            /\ pc' = [pc EXCEPT ![t] = "p_flag"]
            /\ UNCHANGED <<is_running, callframe>>
       ELSE /\ is_running' = FALSE
            /\ Return(t, "WasNotRunning", "stop")
            /\ UNCHANGED process
    /\ UNCHANGED <<os, sink, app, config>>

\* if let Some(mut process) = state.process.take() { .. }
\* else { state.is_running = false; Ok("Python bridge was not running") }
StopTake(t) ==
    /\ pc[t] = "p_take"
    /\ IF process # None
       THEN /\ child' = [child EXCEPT ![t] = process]
            /\ process' = None
            /\ pc' = [pc EXCEPT ![t] = "p_kill"]
            /\ UNCHANGED <<is_running, callframe>>
       ELSE /\ is_running' = FALSE
            /\ Return(t, "WasNotRunning", "stop")
            /\ UNCHANGED process
    /\ UNCHANGED <<os, sink, app, config>>

\* Variant of StopKill that returns the kill error without restoring the handle.
StopKill_noRestore(t) ==
    /\ pc[t] = "p_kill"
    /\ \E killed \in BOOLEAN :
          IF killed
          THEN /\ os' = [os EXCEPT ![child[t]] = "exited"]
               /\ pc' = [pc EXCEPT ![t] = "p_flag"]
               /\ UNCHANGED <<child, callframe>>
          ELSE /\ Return(t, "KillFailed", "none")
               /\ UNCHANGED os
    /\ UNCHANGED <<guarded, sink, app, config>>

\* match process.kill(): Ok(_) ends the process if it still lives, Err(e) leaves it.
StopKill(t) ==
    /\ pc[t] = "p_kill"
    /\ \E killed \in BOOLEAN :
          IF killed
          THEN /\ os' = [os EXCEPT ![child[t]] = "exited"]
               /\ pc' = [pc EXCEPT ![t] = "p_flag"]
          ELSE /\ pc' = [pc EXCEPT ![t] = "p_restore"]
               /\ UNCHANGED os
    /\ UNCHANGED <<guarded, child, callframe, sink, app, config>>

\* Variant of StopFlag that leaves is_running as it is.
StopFlag_skip(t) ==
    /\ pc[t] = "p_flag"
    /\ pc' = [pc EXCEPT ![t] = "p_emit"]
    /\ UNCHANGED <<guarded, child, callframe, os, sink, app, config>>

\* state.is_running = false;
StopFlag(t) ==
    /\ pc[t] = "p_flag"
    /\ is_running' = FALSE
    /\ pc' = [pc EXCEPT ![t] = "p_emit"]
    /\ UNCHANGED <<process, child, callframe, os, sink, app, config>>

\* Variant of StopEmit that emits nothing.
StopEmit_silent(t) ==
    /\ pc[t] = "p_emit"
    /\ pc' = [pc EXCEPT ![t] = "p_ret"]
    /\ UNCHANGED <<guarded, child, callframe, os, sink, app, config>>

\* let _ = window.emit("python-bridge-status", false);
StopEmit(t) ==
    /\ pc[t] = "p_emit"
    /\ Emit(FALSE)
    /\ pc' = [pc EXCEPT ![t] = "p_ret"]
    /\ UNCHANGED <<guarded, child, callframe, os, app, config>>

\* Ok("Python bridge stopped successfully")
StopReturn(t) ==
    /\ pc[t] = "p_ret"
    /\ Return(t, "Stopped", "stop")
    /\ UNCHANGED <<guarded, os, sink, app, config>>

\* Variant of StopRestore that does not put the taken child back.
StopRestore_forget(t) ==
    /\ pc[t] = "p_restore"
    /\ Return(t, "KillFailed", "none")
    /\ UNCHANGED <<guarded, os, sink, app, config>>

\* state.process = Some(process); Err("Failed to stop Python bridge: ..")
StopRestore(t) ==
    /\ pc[t] = "p_restore"
    /\ process' = child[t]
    /\ Return(t, "KillFailed", "none")
    /\ UNCHANGED <<is_running, os, sink, app, config>>

\* --------------------------------------------------- is_python_bridge_running
\* let state = state.lock().unwrap();
StatusLock(t) ==
    /\ pc[t] = "q_lock"
    /\ Acquire(t, "q_read")
    /\ UNCHANGED <<guarded, child, ret, lastOk, autoLog, os, sink, app, config>>

\* Ok(state.is_running)
StatusRead(t) ==
    /\ pc[t] = "q_read"
    /\ Return(t, IF is_running THEN "true" ELSE "false", "none")
    /\ UNCHANGED <<guarded, os, sink, app, config>>

\* ------------------------------------------------------------ the application
\* First position of each command.
FirstPc(o) == CASE o = "start" -> "s_lock" [] o = "stop" -> "p_lock" [] o = "status" -> "q_lock"

\* setup: tauri::async_runtime::spawn(async move { start_python_bridge_direct(..) })
SetupSpawn ==
    /\ setup = "init"
    /\ setup' = "spawned"
    /\ pc' = [pc EXCEPT ![AutoTask] = FirstPc("start")]
    /\ autoStarts' = autoStarts + 1
    /\ UNCHANGED <<guarded, child, callframe, os, sink, window, closeLog, calls, config>>

\* setup: Ok(()) -- the hook does not join the task it spawned.
SetupCanReturn == setup = "spawned"

SetupReturn ==
    /\ SetupCanReturn
    /\ setup' = "done"
    /\ UNCHANGED <<guarded, pc, child, callframe, os, sink, window, closeLog, autoStarts,
                   calls, config>>

\* The UI invokes one of the three registered commands on an idle command task.
Invoke(t, o) ==
    /\ setup = "done"
    /\ pc[t] = "idle"
    /\ calls < MaxCalls
    /\ calls' = calls + 1
    /\ pc' = [pc EXCEPT ![t] = FirstPc(o)]
    /\ UNCHANGED <<guarded, child, callframe, os, sink, window, closeLog, setup, autoStarts,
                   config>>

\* Variant of CloseRequested that shuts the worker down with the window.
CloseRequested_stops ==
    /\ setup = "done"
    /\ window' = "hidden"
    /\ closeLog' = IF is_running THEN "running" ELSE "idle"
    /\ process' = None
    /\ is_running' = FALSE
    /\ os' = [p \in DOMAIN os |-> "exited"]
    /\ UNCHANGED <<pc, child, callframe, sink, setup, autoStarts, calls, config>>

\* on_window_event(CloseRequested): api.prevent_close(); window.hide();
CloseRequested ==
    /\ setup = "done"
    /\ window' = "hidden"
    /\ closeLog' = IF is_running THEN "running" ELSE "idle"
    /\ UNCHANGED <<guarded, pc, child, callframe, os, sink, setup, autoStarts, calls, config>>

\* Variant of WorkerExit in which a watcher clears the state of a worker that ended.
WorkerExit_reaped(p) ==
    /\ os[p] = "alive"
    /\ os' = [os EXCEPT ![p] = "exited"]
    /\ process' = IF process = p /\ lock = NoTask THEN None ELSE process
    /\ is_running' = IF process = p /\ lock = NoTask THEN FALSE ELSE is_running
    /\ UNCHANGED <<pc, child, callframe, sink, app, config>>

\* The worker process ends by itself (crash or normal exit), whenever it likes.
WorkerExit(p) ==
    /\ os[p] = "alive"
    /\ os' = [os EXCEPT ![p] = "exited"]
    /\ UNCHANGED <<guarded, pc, child, callframe, sink, app, config>>

Start(t) ==
    \/ StartLock(t) \/ StartCheck(t) \/ StartResolve(t) \/ StartSpawn(t) \/ StartProbe(t)
    \/ StartExited(t) \/ StartRunning(t) \/ StartProbeError(t) \/ StartStore(t) \/ StartFlag(t) \/ StartEmit(t) \/ StartReturn(t)

Stop(t) ==
    \/ StopLock(t) \/ StopCheck(t) \/ StopTake(t) \/ StopKill(t) \/ StopFlag(t)
    \/ StopEmit(t) \/ StopReturn(t) \/ StopRestore(t)

Status(t) == StatusLock(t) \/ StatusRead(t)

Next ==
    \/ SetupSpawn
    \/ SetupReturn
    \/ CloseRequested
    \/ \E t \in UITasks, o \in {"start", "stop", "status"} : Invoke(t, o)
    \/ \E t \in Tasks : Start(t)
    \/ \E t \in Tasks : Stop(t)
    \/ \E t \in Tasks : Status(t)
    \/ \E p \in DOMAIN os : WorkerExit(p)

Spec == Init /\ [][Next]_vars

\* ================================================================ properties
\* Positions in which a task is not inside a command's critical section.
\* state.lock().unwrap(): the blocking acquisition that opens each command.
LockStep(t) == StartLock(t) \/ StopLock(t) \/ StatusLock(t)

\* The statements of a command between its acquisition and its return: straight-
\* line code whose OS calls (spawn, sleep, try_wait, kill) return.
BodyStep(t) == lock = t /\ (Start(t) \/ Stop(t) \/ Status(t))

\* The runtime keeps running a task that can run, and a task blocked on the
\* mutex gets it if it is free again and again.
Fairness == \A t \in Tasks : WF_vars(BodyStep(t)) /\ SF_vars(LockStep(t))

LiveSpec == Spec /\ Fairness

Outside == {"unspawned", "idle", "done", "s_lock", "p_lock", "q_lock"}
InCS(t) == pc[t] \notin Outside

\* The step in which task t's call returns to its caller.
Returns(t) == InCS(t) /\ pc'[t] = Home(t)

\* Task t leaves position at in this step.
Leaves(t, at) == pc[t] = at /\ pc'[t] # at

\* What the call of task t found when it took the lock.
EntryProcess(t) == entry[t][1]
EntryRunning(t) == entry[t][2]
EntryEvents(t) == entry[t][3]

\* C1: whenever the supervisor lock is not held, is_running is true if and
\* only if a process handle is stored.
C1_RunningIffHandle == lock = NoTask => (is_running <=> process # None)

\* A worker was started, stopped and started again; the lock is free and the
\* supervisor holds a handle with is_running set.
C1_Witness ==
    /\ lock = NoTask
    /\ is_running
    /\ process # None
    /\ events = <<TRUE, FALSE, TRUE>>

\* C2: a start() that finds is_running set when it takes the lock returns the
\* AlreadyRunning error in its next step, releases the lock, and changes neither
\* the handle, is_running, the OS process table (nothing is spawned) nor the
\* emitted events; it never reaches command resolution.
C2_StartWhileRunning ==
    [][\A t \in Tasks :
          /\ (Leaves(t, "s_check") /\ EntryRunning(t)) =>
                /\ ret' = "AlreadyRunning"
                /\ Returns(t)
                /\ lock' = NoTask
                /\ UNCHANGED <<process, is_running, os, events, delivered>>
                /\ <<process, is_running, Len(events)>> = entry[t]
          /\ (pc'[t] \in {"s_resolve", "s_spawn"}) => ~EntryRunning(t)]_vars

\* A start() has just failed with AlreadyRunning while a worker is tracked.
C2_Witness ==
    /\ ret = "AlreadyRunning"
    /\ lock = NoTask
    /\ is_running
    /\ process # None

\* C3: a stop() that finds is_running clear when it takes the lock returns the
\* NotRunning error in its next step, releases the lock, attempts no kill (the
\* OS process table is untouched), leaves the handle None and is_running false,
\* and emits nothing.
C3_StopWhileNotRunning ==
    [][\A t \in Tasks :
          /\ (Leaves(t, "p_check") /\ ~EntryRunning(t)) =>
                /\ ret' = "NotRunning"
                /\ Returns(t)
                /\ lock' = NoTask
                /\ process' = None /\ process = None
                /\ ~is_running' /\ ~is_running
                /\ UNCHANGED <<os, events, delivered>>
          /\ (pc'[t] \in {"p_take", "p_kill"}) => EntryRunning(t)]_vars

\* A stop() has just failed with NotRunning after a spawned worker was refused
\* at the grace probe (so a process exists in the OS table, but none is tracked).
C3_Witness ==
    /\ ret = "NotRunning"
    /\ lock = NoTask
    /\ ~is_running
    /\ process = None
    /\ Len(os) > 0

\* C4: when kill fails in stop() (the Err arm, position p_restore), the call
\* returns KillFailed with the handle it took put back, is_running still true,
\* no event emitted since the call began, and the lock released, so that the
\* state equals the state the call found; and status() returns is_running.
C4_KillFailedRollsBack ==
    [][\A t \in Tasks :
          /\ Leaves(t, "p_restore") =>
                /\ ret' = "KillFailed"
                /\ Returns(t)
                /\ lock' = NoTask
                /\ <<process', is_running', Len(events')>> = entry[t]
                /\ process' # None
                /\ is_running'
          /\ Leaves(t, "q_read") => ret' = IF is_running THEN "true" ELSE "false"]_vars

\* A stop() has just failed with KillFailed: the worker started by the
\* application is still tracked, still flagged running, and no "stopped" event
\* was emitted.
C4_Witness ==
    /\ ret = "KillFailed"
    /\ lock = NoTask
    /\ is_running
    /\ process # None
    /\ events = <<TRUE>>

\* C5: when the probe after the grace interval finds the spawned process exited
\* (the Ok(Some(status)) arm, position s_exited), start() returns
\* ExitedImmediately, the handle is not stored (process stays None), is_running
\* stays false, nothing was emitted since the call began, and the lock is
\* released, so a subsequent status() reads false.
C5_ExitedImmediately ==
    [][\A t \in Tasks :
          /\ Leaves(t, "s_exited") =>
                /\ os[child[t]] = "exited"
                /\ ret' = "ExitedImmediately"
                /\ Returns(t)
                /\ lock' = NoTask
                /\ process' = None
                /\ ~is_running'
                /\ <<process', is_running', Len(events')>> = entry[t]
          /\ (Leaves(t, "q_read") /\ ~is_running) => ret' = "false"]_vars

\* The auto-started worker exited within the grace window: the call failed with
\* ExitedImmediately, the exited process is tracked nowhere and nothing was emitted.
C5_Witness ==
    /\ ret = "ExitedImmediately"
    /\ lock = NoTask
    /\ ~is_running
    /\ process = None
    /\ os = <<"exited">>
    /\ events = <<>>

\* C6: status() returns true exactly when the last call that returned success
\* was a start(), and false when it was a stop() or when none has succeeded
\* yet; a stop() that takes the lock while the last success is a stop() fails
\* with NotRunning; the last success changes only when a start() or stop()
\* returns Ok.
C6_StatusTracksLastSuccess ==
    [][/\ \A t \in Tasks :
             /\ Leaves(t, "q_read") => ret' = IF lastOk = "start" THEN "true" ELSE "false"
             /\ (Leaves(t, "p_check") /\ lastOk = "stop") => ret' = "NotRunning"
             /\ (Returns(t) /\ ret' = "Started") => lastOk' = "start"
             /\ (Returns(t) /\ ret' \in {"Stopped", "WasNotRunning"}) => lastOk' = "stop"
       /\ lastOk' # lastOk =>
             \E t \in Tasks : Returns(t) /\ ret' \in {"Started", "Stopped", "WasNotRunning"}]_vars

\* After a start() and a stop() that both succeeded, a second stop() has just
\* failed with NotRunning.
C6_Witness ==
    /\ lastOk = "stop"
    /\ ret = "NotRunning"
    /\ events = <<TRUE, FALSE>>
    /\ lock = NoTask

\* C7: a window-close request hides the window and changes nothing else: not the
\* handle, not is_running, no OS process, no task, no event; and is_running goes
\* from true to false only in a step of a UI task executing stop().
C7_CloseLeavesWorker ==
    [][/\ (window' # window \/ closeLog' # closeLog) =>
             /\ window' = "hidden"
             /\ UNCHANGED <<process, is_running, os, lock, pc, child, ret, events, delivered,
                            lastOk>>
       /\ (is_running /\ ~is_running') =>
             \E t \in UITasks : pc[t] \in {"p_take", "p_flag"} /\ pc'[t] # pc[t]]_vars

\* The window was closed while the worker was running; it is hidden, the worker
\* is still tracked and alive, and status() answered true.
C7_Witness ==
    /\ closeLog = "running"
    /\ window = "hidden"
    /\ is_running
    /\ process # None
    /\ os[process] = "alive"
    /\ ret = "true"
    /\ lock = NoTask

\* C8: every call that returns Started has emitted exactly one event, true,
\* since it took the lock; every stop() that returns Ok has emitted exactly one,
\* false; every other call (failed start, failed stop, status) has emitted
\* none; and events are emitted by no step other than the emit of a start() or
\* a stop().
C8_EventsOnSuccessOnly ==
    [][/\ \A t \in Tasks :
             Returns(t) =>
                CASE ret' = "Started" ->
                        events = Append(SubSeq(events, 1, EntryEvents(t)), TRUE)
                  [] ret' \in {"Stopped", "WasNotRunning"} ->
                        events = Append(SubSeq(events, 1, EntryEvents(t)), FALSE)
                  [] OTHER -> Len(events) = EntryEvents(t)
       /\ events' # events =>
             \E t \in Tasks : /\ pc[t] \in {"s_emit", "p_emit"}
                               /\ pc'[t] # pc[t]
                               /\ events' = Append(events, pc[t] = "s_emit")]_vars

\* A start() and then a stop() succeeded: exactly the events true, false exist.
C8_Witness ==
    /\ events = <<TRUE, FALSE>>
    /\ ret = "Stopped"
    /\ lock = NoTask
    /\ ~is_running

\* C9: at most one task is inside a critical section and it holds the lock;
\* handle and is_running change only in steps of the lock holder; a status()
\* reads is_running in a state where handle and is_running agree and which is
\* the state it found when it took the lock.
C9_MutualExclusion ==
    /\ Cardinality({t \in Tasks : InCS(t)}) <= 1
    /\ \A t \in Tasks : InCS(t) => lock = t
    /\ \A t \in Tasks :
          pc[t] = "q_read" => /\ is_running <=> process # None
                              /\ <<process, is_running>> = <<EntryProcess(t), EntryRunning(t)>>

C9_WritesUnderLock ==
    /\ guarded' # guarded => \E t \in Tasks : lock = t /\ InCS(t) /\ pc'[t] # pc[t]
    /\ \A t \in Tasks : Leaves(t, "q_read") => ret' = IF is_running THEN "true" ELSE "false"

C9_Serialized == []C9_MutualExclusion /\ [][C9_WritesUnderLock]_vars

\* A status() waits for the lock while a start() or stop() is in the middle of
\* its transition, with handle and is_running in disagreement.
C9_Witness ==
    \E t, u \in Tasks :
        /\ pc[t] = "q_lock"
        /\ pc[u] \in {"s_flag", "p_kill", "p_flag"}
        /\ is_running # (process # None)

\* C10: the application issues start() itself exactly once, when setup spawns
\* the auto-start task; setup can return whatever that task is doing; the task
\* only records the outcome of its call and ends, never calling again; every
\* other start() is a command invoked by the UI.
C10_AutoState ==
    /\ autoStarts <= 1
    /\ setup # "init" <=> autoStarts = 1
    /\ setup = "spawned" => ENABLED SetupReturn
    /\ autoLog # "none" <=> pc[AutoTask] = "done"
    /\ pc[AutoTask] \notin {"idle", "p_lock", "q_lock", "p_check", "q_read"}

C10_AutoSteps ==
    /\ autoStarts' # autoStarts =>
          setup = "init" /\ pc[AutoTask] = "unspawned" /\ pc'[AutoTask] = "s_lock"
    /\ Leaves(AutoTask, "unspawned") => autoStarts' = autoStarts + 1
    /\ pc[AutoTask] = "done" => pc'[AutoTask] = "done"
    /\ Returns(AutoTask) =>
          /\ autoLog' = IF ret' = "Started" THEN "success" ELSE "failed"
          /\ pc'[AutoTask] = "done"
    /\ \A t \in UITasks :
          (pc'[t] = "s_lock" /\ pc[t] # "s_lock") => pc[t] = "idle" /\ calls' = calls + 1

C10_AutoStartOnce == []C10_AutoState /\ [][C10_AutoSteps]_vars

\* Setup has returned while the auto-start call is still in its grace interval.
C10_Witness ==
    /\ setup = "done"
    /\ autoStarts = 1
    /\ pc[AutoTask] = "s_probe"
    /\ lock = AutoTask

\* The error results of start() and of stop().
StartErrors == {"AlreadyRunning", "ResolutionFailed", "SpawnFailed", "ExitedImmediately"}
StopErrors == {"NotRunning", "KillFailed"}

\* C11: when a start() or a stop() returns an error, handle and is_running are
\* what the call found when it took the lock, they agree with each other, and
\* the lock is free; and whenever the lock is free, every call waiting for it
\* can take it.
C11_Unchanged ==
    \A t \in Tasks :
       (Returns(t) /\ ret' \in StartErrors \cup StopErrors) =>
          /\ <<process', is_running'>> = <<EntryProcess(t), EntryRunning(t)>>
          /\ is_running' <=> process' # None
          /\ lock' = NoTask

C11_Accepts ==
    lock = NoTask =>
       \A u \in Tasks :
          /\ pc[u] = "s_lock" => ENABLED StartLock(u)
          /\ pc[u] = "p_lock" => ENABLED StopLock(u)
          /\ pc[u] = "q_lock" => ENABLED StatusLock(u)

C11_FailureLeavesState == []C11_Accepts /\ [][C11_Unchanged]_vars

\* The auto-start failed; afterwards a start() from the UI succeeded and a
\* stop() from the UI succeeded.
C11_Witness ==
    /\ autoLog = "failed"
    /\ ret = "Stopped"
    /\ events = <<TRUE, FALSE>>
    /\ lock = NoTask

\* What the resolver is said to return in debug mode, and for the three
\* recognised platforms in production mode with the app data dir available.
ModuleArgs == <<"-m", "aya.tauri_bridge">>
ResolvedDebug ==
    /\ resolved.ok
    /\ resolved.cmd = IF platform = "windows" THEN <<"python">> ELSE <<"python3">>
    /\ resolved.args = ModuleArgs
ResolvedBundled ==
    /\ platform = "windows" =>
          /\ resolved.ok /\ resolved.args = <<>>
          /\ resolved.cmd = app_data_dir \o <<"resources", "aya_bridge.exe">>
    /\ platform = "macos" =>
          /\ resolved.ok /\ resolved.args = <<>>
          /\ resolved.cmd = app_data_dir \o <<"Resources", "aya_bridge">>
    /\ platform = "linux" =>
          /\ resolved.ok /\ resolved.args = <<>>
          /\ resolved.cmd = app_data_dir \o <<"resources", "aya_bridge">>
Recognised == {"windows", "macos", "linux"}
UnsupportedPlatform == ~resolved.ok /\ resolved.err = "Unsupported platform"
AppDirUnavailable == ~resolved.ok /\ resolved.err = "Failed to get app directory"

\* C12 as stated: once a start() has called the resolver, its result is the
\* debug command in debug mode; in production mode it is the bundled path of the
\* platform, UnsupportedPlatform on any other platform, and AppDirUnavailable
\* when the app data dir is not available.
C12_AsStated ==
    resolved # NotResolved =>
       IF debug
       THEN ResolvedDebug
       ELSE /\ platform \notin Recognised => UnsupportedPlatform
            /\ app_data_dir = NoDir => AppDirUnavailable
            /\ app_data_dir # NoDir => ResolvedBundled

\* C12 amended: as stated, except that in production mode the app data dir is
\* looked up first: without it the result is AppDirUnavailable on every
\* platform, and UnsupportedPlatform is the result on an unrecognised platform
\* only when the app data dir is available.
C12_Resolver ==
    resolved # NotResolved =>
       IF debug
       THEN ResolvedDebug
       ELSE /\ (platform \notin Recognised /\ app_data_dir # NoDir) => UnsupportedPlatform
            /\ app_data_dir = NoDir => AppDirUnavailable
            /\ app_data_dir # NoDir => ResolvedBundled

\* A production build on macOS has resolved <app_data_dir>/Resources/aya_bridge
\* and spawned it.
C12_Witness ==
    /\ ~debug
    /\ platform = "macos"
    /\ resolved.ok
    /\ resolved.cmd = <<"app_data_dir", "Resources", "aya_bridge">>
    /\ resolved.args = <<>>
    /\ Len(os) > 0

\* C13: the step that emits goes on to the Ok return whether or not the event is
\* delivered, touching neither handle, is_running nor the lock; and the call
\* that follows an undelivered emit returns the same result and leaves the same
\* handle and is_running as one whose emit was delivered: Started with the
\* spawned child stored and is_running set, Stopped with no handle and
\* is_running clear.
C13_EmitFailureIgnored ==
    [][\A t \in Tasks :
          /\ Leaves(t, "s_emit") =>
                pc'[t] = "s_ret" /\ UNCHANGED <<process, is_running, lock, ret, lastOk, os>>
          /\ Leaves(t, "p_emit") =>
                pc'[t] = "p_ret" /\ UNCHANGED <<process, is_running, lock, ret, lastOk, os>>
          /\ Leaves(t, "s_ret") =>
                /\ ret' = "Started" /\ lastOk' = "start"
                /\ is_running' /\ process' = child[t] /\ process' # None
                /\ lock' = NoTask
          /\ Leaves(t, "p_ret") =>
                /\ ret' = "Stopped" /\ lastOk' = "stop"
                /\ ~is_running' /\ process' = None
                /\ lock' = NoTask]_vars

\* A start() returned Started although its event was not delivered; the worker
\* is tracked and flagged running.
C13_Witness ==
    /\ ~delivered
    /\ ret = "Started"
    /\ events = <<TRUE>>
    /\ is_running
    /\ process # None
    /\ lock = NoTask

\* C14 as stated: start() goes on to store the handle and set is_running only
\* from the probe arm that found the process still running (Ok(None)); from
\* every other arm (exited, probe error) the call returns with is_running false
\* and no handle stored.
C14_OnlyLiveProcessRecorded ==
    [][\A t \in Tasks :
          /\ (pc'[t] = "s_store" /\ pc[t] # "s_store") => pc[t] = "s_running"
          /\ (Leaves(t, "s_exited") \/ Leaves(t, "s_error")) =>
                Returns(t) /\ ~is_running' /\ process' = None]_vars

\* The worker processes that are alive.
Alive == {p \in DOMAIN os : os[p] = "alive"}

\* C15: at most one spawned worker is alive at any time; a process is spawned
\* only by the lock holder and only while is_running is false and no handle is
\* stored; every live process is the stored handle or the child held by the
\* lock holder, so that with the lock free every spawned process is the
\* tracked handle or has exited.
C15_Tracking ==
    /\ Cardinality(Alive) <= 1
    /\ \A p \in Alive : p = process \/ (lock # NoTask /\ child[lock] = p)
    /\ lock = NoTask => \A p \in DOMAIN os : p = process \/ os[p] = "exited"

C15_SpawnGuarded ==
    Len(os') > Len(os) =>
       /\ lock # NoTask
       /\ pc[lock] = "s_spawn"
       /\ ~is_running
       /\ process = None
       /\ Alive = {}

C15_OneWorker == []C15_Tracking /\ [][C15_SpawnGuarded]_vars

\* A second worker runs, tracked, after the first one ended; the lock is free.
C15_Witness ==
    /\ os = <<"exited", "alive">>
    /\ process = 2
    /\ is_running
    /\ lock = NoTask

\* Positions of start() from the spawn to its return.
Launching == {"s_probe", "s_exited", "s_running", "s_error", "s_store", "s_flag", "s_emit",
              "s_ret"}

\* C16: a task inside start(), stop() or status() holds the lock in every step
\* until its return, and leaves only by returning, with the lock released and
\* handle and is_running in agreement; while it is inside, no other task enters
\* or moves inside a critical section and none changes handle or is_running;
\* in particular a start() that has spawned keeps the lock through the grace
\* interval and the probe.
C16_Step ==
    \A t \in Tasks :
       InCS(t) =>
          /\ lock = t
          /\ InCS(t)' => lock' = t
          /\ ~InCS(t)' =>
                /\ pc'[t] = Home(t)
                /\ lock' = NoTask
                /\ is_running' <=> process' # None
          /\ \A u \in Tasks \ {t} :
                /\ ~InCS(u) /\ ~InCS(u)'
                /\ pc'[u] # pc[u] => UNCHANGED <<process, is_running>>
          /\ pc[t] \in Launching => (pc'[t] \in Launching \/ pc'[t] = Home(t))

C16_Held == \A t \in Tasks : InCS(t) => lock = t /\ ENABLED (Start(t) \/ Stop(t) \/ Status(t))

C16_RunsToCompletion == []C16_Held /\ [][C16_Step]_vars

\* The auto-start is in its grace interval holding the lock while a stop() and a
\* status() from the UI both wait for it.
C16_Witness ==
    /\ pc[AutoTask] = "s_probe"
    /\ lock = AutoTask
    /\ pc[1] = "p_lock"
    /\ pc[2] = "q_lock"

\* A task that is in a call: waiting for the lock or inside the critical section.
InCall(t) == pc[t] \notin {"unspawned", "idle", "done"}

\* C17: with OS calls that return and a fairly granted lock, every call to
\* start(), stop() and status() eventually returns, and each return releases
\* the lock; a stop() or status() that waits while a start() is in its grace
\* interval returns after it.
C17_ReturnReleases == \A t \in Tasks : Returns(t) => lock' = NoTask

C17_EveryCallReturns ==
    /\ \A t \in Tasks : InCall(t) ~> pc[t] = Home(t)
    /\ \A u \in UITasks :
          (pc[AutoTask] = "s_probe" /\ pc[u] \in {"p_lock", "q_lock"})
             ~> (pc[u] = "idle" /\ pc[AutoTask] = "done")
    /\ [][C17_ReturnReleases]_vars

\* The auto-start has slept and probed and is about to return while a status()
\* and a stop() wait for the lock it still holds.
C17_Witness ==
    /\ pc[AutoTask] = "s_ret"
    /\ lock = AutoTask
    /\ pc[1] = "q_lock"
    /\ pc[2] = "p_lock"
    /\ os = <<"alive">>

\* The tracked worker has ended at the OS level.
TrackedDead == process # None /\ os[process] = "exited"

StopPcs == {"p_check", "p_take", "p_kill", "p_flag", "p_emit", "p_ret", "p_restore"}

\* C18: is_running does not follow the worker's life: a step in which a worker
\* ends by itself changes neither the handle nor is_running and emits nothing;
\* with the tracked worker dead, status() still returns true and start() still
\* fails with AlreadyRunning; only a step of a stop() call clears the handle
\* or the flag.
C18_Step ==
    /\ (pc' = pc /\ os' # os) =>
          UNCHANGED <<process, is_running, events, delivered, ret, lock, lastOk>>
    /\ \A t \in Tasks :
          /\ (TrackedDead /\ is_running /\ Leaves(t, "q_read")) =>
                ret' = "true" /\ UNCHANGED <<process, is_running, events>>
          /\ (TrackedDead /\ is_running /\ Leaves(t, "s_check")) =>
                /\ Returns(t)
                /\ ret' = "AlreadyRunning"
                /\ UNCHANGED <<process, is_running, events, os>>
    /\ ((is_running /\ ~is_running') \/ (process # None /\ process' = None)) =>
          \E t \in Tasks : pc[t] \in StopPcs /\ pc'[t] # pc[t] /\ lock = t

C18_Idle == lock = NoTask /\ TrackedDead => is_running

C18_FlagIsLogical == []C18_Idle /\ [][C18_Step]_vars

\* The worker that start() reported as running has ended by itself; a status()
\* has answered true and a start() is about to be refused.
C18_Witness ==
    /\ TrackedDead
    /\ is_running
    /\ events = <<TRUE>>
    /\ ret = "true"
    /\ pc[1] = "s_check"

\* C19: the emitted events alternate true, false, true, ... from a first true,
\* whatever the interleaving of the calls; each emit appends the negation of
\* the previous event; and whenever the lock is free and an event has been
\* emitted, the last event equals is_running.
C19_Alternate ==
    /\ \A i \in 1..Len(events) : events[i] = (i % 2 = 1)
    /\ (lock = NoTask /\ Len(events) > 0) => events[Len(events)] = is_running

C19_Append ==
    events' # events =>
       /\ Len(events') = Len(events) + 1
       /\ SubSeq(events', 1, Len(events)) = events
       /\ events'[Len(events')] = is_running
       /\ Len(events) > 0 => events'[Len(events')] = ~events[Len(events)]

C19_EventsAlternate == []C19_Alternate /\ [][C19_Append]_vars

\* Start, stop and start again have each succeeded: three events, the last one
\* true, and the second worker runs.
C19_Witness ==
    /\ events = <<TRUE, FALSE, TRUE>>
    /\ ret = "Started"
    /\ os = <<"exited", "alive">>
    /\ is_running
    /\ lock = NoTask

\* C20: stop() never reaches its branch for is_running set with no handle: at
\* the take the handle is present and the message 'Python bridge was not
\* running' is never returned; every stop() that returns success does so from
\* the kill path, having killed the one process that was tracked when it took
\* the lock, and no other process changed in its steps.
C20_HandlePresent ==
    /\ \A t \in Tasks : pc[t] = "p_take" => process # None /\ is_running
    /\ ret # "WasNotRunning"

C20_Step ==
    \A t \in Tasks :
       /\ (Returns(t) /\ ret' \in {"Stopped", "WasNotRunning"}) =>
             /\ pc[t] = "p_ret"
             /\ ret' = "Stopped"
             /\ child[t] # None
             /\ child[t] = EntryProcess(t)
             /\ os[child[t]] = "exited"
             /\ process' = None /\ ~is_running'
       /\ Leaves(t, "p_kill") =>
             \A p \in DOMAIN os : p # child[t] => os'[p] = os[p]

C20_StopKillsTracked == []C20_HandlePresent /\ [][C20_Step]_vars

\* A stop() has returned success with the one worker ever spawned killed and
\* nothing tracked any more.
C20_Witness ==
    /\ ret = "Stopped"
    /\ os = <<"exited">>
    /\ process = None
    /\ pc[AutoTask] = "done"
    /\ autoLog = "success"
    /\ lock = NoTask

====
